---- MODULE Spec2Model ----
(***************************************************************************)
(* A model of the forecasting / capacity-planning core (package fcp):      *)
(*   - fcp/backtest.py         rolling_origin_backtest                     *)
(*   - fcp/models.py           SeasonalNaiveForecaster                     *)
(*   - fcp/ridge_forecaster.py RidgeForecaster                             *)
(*   - fcp/planning.py         recommend_capacity, evaluate_capacity_cost  *)
(*   - fcp/metrics.py          mae, smape, _align                          *)
(*                                                                         *)
(* Representation.                                                         *)
(*   A float is an integer here, or NaN.  A cell is <<v>> (the value v) or *)
(*   <<>> (NaN).  A pandas Series is a sequence of points [ts, v]: ts is   *)
(*   the timestamp counted in periods of freq, v a cell; the order of the  *)
(*   sequence is the positional (iloc) order.                              *)
(*   A service level is held in percent (0.9 is 90), and a real-valued     *)
(*   result is held exactly: the quantile times 100, a mean as the pair    *)
(*   <<numerator, denominator>>.                                           *)
(*   The fitted sklearn Ridge regressor is outside the repository: what    *)
(*   model.predict returns is a nondeterministic choice from PredValues.   *)
(***************************************************************************)
EXTENDS Integers, Sequences, FiniteSets, TLC

VARIABLES
    \* ---- rolling_origin_backtest: arguments
    y,              \* the series
    cfg,            \* BacktestConfig
    factory,        \* what model_factory builds
    plan,           \* service_level, units_per_capacity, the two cost rates
    \* ---- rolling_origin_backtest: locals and outcome
    pc,             \* position in the function
    fold,
    cutoff_idx,
    results,
    train,
    test,
    model,          \* the forecaster instance of the current fold
    preds,
    returned,       \* what the caller received
    err,            \* the exception that left the function, "" if none
    calls,          \* history: every call made on the factory and on forecasters
    nInst,          \* history: number of forecaster objects constructed so far
    \* ---- a forecaster instance driven directly (fit / predict)
    fc,             \* the instance
    fcIn,           \* the arguments its caller passes
    fcOut,          \* the outcome of the last call on it
    \* ---- planning functions called directly
    demand,         \* the series passed in (a forecast, or the actual demand)
    pOut,           \* the outcome of the last call
    pPrev           \* the outcome of the call before it

btVars == <<y, cfg, factory, plan, pc, fold, cutoff_idx, results, train, test,
            model, preds, returned, err, calls, nInst>>
fcVars == <<fc, fcIn, fcOut>>
plVars == <<demand, pOut, pPrev>>
vars == <<btVars, fcVars, plVars>>

\* ------------------------------------------------------------------ bounds
MaxLen == 4
MaxHorizon == 2
MaxStep == 2
MaxTrain == 2
MaxSeason == 2
MaxLag == 2
MaxWindow == 2
MaxPredict == 3

MaxUnits == 3
MaxCapacity == 2

\* the values series are drawn from, and what the regressor may answer
Values == {-3, 2}
PredValues == {-3, 2}
NaN == <<>>
Cells == {NaN} \cup {<<v>> : v \in Values}
\* service levels in percent and units_per_capacity, valid and not, of a backtest
ServiceLevels == {45, 75, 100}
UnitsChoices == {0, 2}
\* the same for the planning functions called directly
DemandValues == {-3, 0, 2}
PlanLevels == {45, 50, 70, 90, 99, 100}

\* ------------------------------------------------------------ series helpers
IsNaN(c) == c = NaN
Val(c) == c[1]
Abs(x) == IF x < 0 THEN -x ELSE x
Max2(a, b) == IF a >= b THEN a ELSE b

\* a series over the uniform index 0, 1, ..., Len(cells) - 1
MkSeries(cells) == [i \in 1..Len(cells) |-> [ts |-> i - 1, v |-> cells[i]]]

\* pd.date_range(start, periods, freq)
DateRange(start, periods) == [i \in 1..periods |-> start + i - 1]

Index(s) == [i \in 1..Len(s) |-> s[i].ts]
Cols(s) == [i \in 1..Len(s) |-> s[i].v]
HasTs(s, t) == \E i \in 1..Len(s) : s[i].ts = t
AtTs(s, t) == s[CHOOSE i \in 1..Len(s) : s[i].ts = t].v

\* Series.reindex(idx): the value at each timestamp of idx, NaN where there is none
Reindex(s, idx) ==
    [i \in 1..Len(idx) |-> [ts |-> idx[i], v |-> IF HasTs(s, idx[i]) THEN AtTs(s, idx[i]) ELSE NaN]]

AnyNaN(s) == \E i \in 1..Len(s) : IsNaN(s[i].v)

\* Series.dropna()
RECURSIVE DropNa(_)
DropNa(s) ==
    IF s = <<>> THEN <<>>
    ELSE IF IsNaN(Head(s).v) THEN DropNa(Tail(s))
    ELSE <<Head(s)>> \o DropNa(Tail(s))

RECURSIVE SumSeq(_)
SumSeq(s) == IF s = <<>> THEN 0 ELSE Head(s) + SumSeq(Tail(s))

CeilDiv_Floor(a, b) == a \div b

\* ceil(a / b) for b > 0
CeilDiv(a, b) == -((-a) \div b)

RECURSIVE Insert(_, _)
Insert(x, s) ==
    IF s = <<>> THEN <<x>>
    ELSE IF x <= Head(s) THEN <<x>> \o s
    ELSE <<Head(s)>> \o Insert(x, Tail(s))

RECURSIVE Sorted(_)
Sorted(s) == IF s = <<>> THEN <<>> ELSE Insert(Head(s), Sorted(Tail(s)))

\* ------------------------------------------------------------------ errors
\* An error names the raise statement it comes from; ErrType is its Python class.
\* (np.quantile of an empty sample raises IndexError, or with an older numpy
\* answers NaN, which int() then refuses with ValueError: an error either way.)
NoErr == ""
ErrType(e) ==
    CASE e = NoErr -> "none"
      [] e = "not_fit" -> "RuntimeError"
      [] e = "empty_quantile" -> "IndexError"
      [] OTHER -> "ValueError"

Ok(fields) == [ok |-> TRUE, err |-> NoErr] @@ fields
Fail(e, fields) == [ok |-> FALSE, err |-> e] @@ fields

\* ------------------------------------------------------- fcp/planning.py
\* np.quantile(values, s / 100), method "linear", times 100: the sorted sample
\* interpolated at the virtual index (n - 1) * s / 100
Lerp100(srt, s) ==
    LET pos100 == s * (Len(srt) - 1)
        lo == pos100 \div 100
        g == pos100 % 100
    IN  IF g = 0 THEN 100 * srt[lo + 1]
        ELSE 100 * srt[lo + 1] + g * (srt[lo + 2] - srt[lo + 1])

Quantile100_Inverted(vals, s) == Lerp100(Sorted(vals), 100 - s)

Quantile100(vals, s) == Lerp100(Sorted(vals), s)

\* recommend_capacity(demand_forecast, cfg): the record it returns, or the error.
\* The quantile of an empty sample and int() of a NaN capacity both raise.
recommend_capacity(demand_forecast, p) ==
    LET cells == Cols(demand_forecast)
        q100 == Quantile100([i \in 1..Len(cells) |-> Val(cells[i])], p.service_level)
    IN  IF ~(50 <= p.service_level /\ p.service_level < 100)
        THEN Fail("service_level", [q100 |-> 0, recommended_capacity |-> 0])
        ELSE IF p.units_per_capacity <= 0
        THEN Fail("units_per_capacity", [q100 |-> 0, recommended_capacity |-> 0])
        ELSE IF cells = <<>>
        THEN Fail("empty_quantile", [q100 |-> 0, recommended_capacity |-> 0])
        ELSE IF \E i \in 1..Len(cells) : IsNaN(cells[i])
        THEN Fail("nan_to_int", [q100 |-> 0, recommended_capacity |-> 0])
        ELSE Ok([q100 |-> q100,
                 recommended_capacity |-> CeilDiv(q100, 100 * p.units_per_capacity)])

\* required_capacity of one period: ceil(demand / units_per_capacity)
RequiredCapacity(d, p) == CeilDiv(d, p.units_per_capacity)

CostOf_RatesSwapped(actual_demand, capacity, p) ==
    LET req == [i \in 1..Len(actual_demand) |-> RequiredCapacity(Val(actual_demand[i].v), p)]
        over == [i \in 1..Len(req) |-> Max2(capacity - req[i], 0)]
        under == [i \in 1..Len(req) |-> Max2(req[i] - capacity, 0)]
    IN  p.under_capacity_cost * SumSeq(over) + p.over_capacity_cost * SumSeq(under)

CostOf(actual_demand, capacity, p) ==
    LET req == [i \in 1..Len(actual_demand) |-> RequiredCapacity(Val(actual_demand[i].v), p)]
        over == [i \in 1..Len(req) |-> Max2(capacity - req[i], 0)]
        under == [i \in 1..Len(req) |-> Max2(req[i] - capacity, 0)]
    IN  p.over_capacity_cost * SumSeq(over) + p.under_capacity_cost * SumSeq(under)

evaluate_capacity_cost_NoGuard(actual_demand, capacity, p) ==
    Ok([cost |-> CostOf(actual_demand, capacity, p)])

\* evaluate_capacity_cost(actual_demand, capacity, cfg), on actuals without NaN
evaluate_capacity_cost(actual_demand, capacity, p) ==
    IF capacity < 0 THEN Fail("capacity_negative", [cost |-> 0])
    ELSE Ok([cost |-> CostOf(actual_demand, capacity, p)])

\* -------------------------------------------------------- fcp/metrics.py
\* _align: both series restricted to the timestamps they share, in y_true's order
CommonIdx(y_true, y_pred) ==
    LET RECURSIVE keep(_)
        keep(s) == IF s = <<>> THEN <<>>
                   ELSE IF HasTs(y_pred, Head(s).ts) THEN <<Head(s).ts>> \o keep(Tail(s))
                   ELSE keep(Tail(s))
    IN  keep(y_true)

\* |y_true - y_pred| per shared timestamp
AbsErrors(y_true, y_pred) ==
    LET idx == CommonIdx(y_true, y_pred)
    IN  [i \in 1..Len(idx) |-> Abs(Val(AtTs(y_true, idx[i])) - Val(AtTs(y_pred, idx[i])))]

\* mae as <<sum of absolute errors, number of points>>
mae(y_true, y_pred) ==
    LET e == AbsErrors(y_true, y_pred)
    IN  IF Len(e) = 0 THEN Fail("alignment", [value |-> <<0, 1>>])
        ELSE Ok([value |-> <<SumSeq(e), Len(e)>>])

\* a / b + c / d, not reduced
RatAdd(r1, r2) == <<r1[1] * r2[2] + r2[1] * r1[2], r1[2] * r2[2]>>

\* 2 * |pred - true| / max(|true| + |pred|, eps) of one point; with integers the
\* denominator is eps = 1e-8 only when both are 0, and the numerator is 0 then
SmapeTerm(a, p) ==
    IF Abs(a) + Abs(p) = 0 THEN <<0, 1>> ELSE <<2 * Abs(p - a), Abs(a) + Abs(p)>>

\* smape as <<numerator, denominator>>: 100 * mean of the terms
smape(y_true, y_pred) ==
    LET idx == CommonIdx(y_true, y_pred)
        RECURSIVE total(_)
        total(k) == IF k = 0 THEN <<0, 1>>
                    ELSE RatAdd(total(k - 1),
                                SmapeTerm(Val(AtTs(y_true, idx[k])), Val(AtTs(y_pred, idx[k]))))
    IN  IF Len(idx) = 0 THEN Fail("alignment", [value |-> <<0, 1>>])
        ELSE Ok([value |-> <<100 * total(Len(idx))[1], total(Len(idx))[2] * Len(idx)>>])

\* ------------------------------------------------------------ forecasters
\* A forecaster object.  fitted is hasattr(self, "_y") / hasattr(self, "_y_train"),
\* hist is that attribute.  A seasonal instance has no lags, a ridge instance
\* has season_length 0.
Instance(id, kind, season_length, lags, rolling_windows) ==
    [id |-> id, kind |-> kind, season_length |-> season_length, lags |-> lags,
     rolling_windows |-> rolling_windows, fitted |-> FALSE, hist |-> <<>>]

NoModel == Instance(0, "none", 0, <<>>, <<>>)

\* s.iloc[-n:]
LastN(s, n) == IF n >= Len(s) THEN s ELSE SubSeq(s, Len(s) - n + 1, Len(s))

\* np.tile(a, reps)
RECURSIVE Tile(_, _)
Tile(a, reps) == IF reps <= 0 THEN <<>> ELSE a \o Tile(a, reps - 1)

\* a[:n]
FirstN(a, n) == IF n >= Len(a) THEN a ELSE SubSeq(a, 1, n)

\* ---- fcp/models.py
SeasonalNaiveForecaster_init(id, season_length) ==
    IF season_length <= 0 THEN Fail("season_length", [m |-> NoModel])
    ELSE Ok([m |-> Instance(id, "seasonal", season_length, <<>>, <<>>)])

SeasonalNaiveForecaster_fit(m, yy) ==
    IF Len(yy) < m.season_length THEN Fail("seasonal_short_history", [m |-> m])
    ELSE Ok([m |-> [m EXCEPT !.fitted = TRUE, !.hist = yy]])

\* the values predict returns: the last season tiled and cut to horizon
SeasonalValues_FirstSeason(hist, season_length, horizon) ==
    FirstN(Tile(Cols(FirstN(hist, season_length)), CeilDiv(horizon, season_length)), horizon)

SeasonalValues(hist, season_length, horizon) ==
    LET last_season == Cols(LastN(hist, season_length))
        reps == CeilDiv(horizon, season_length)
    IN  FirstN(Tile(last_season, reps), horizon)

SeasonalNaiveForecaster_predict(m, start, horizon) ==
    IF horizon <= 0 THEN Fail("horizon", [preds |-> <<>>])
    ELSE IF ~m.fitted THEN Fail("not_fit", [preds |-> <<>>])
    ELSE LET idx == DateRange(start, horizon)
             vals == SeasonalValues(m.hist, m.season_length, horizon)
         IN  Ok([preds |-> [i \in 1..Len(vals) |-> [ts |-> idx[i], v |-> vals[i]]]])

\* ---- fcp/ridge_forecaster.py
RidgeForecaster_init(id, lags, rolling_windows) ==
    IF lags = <<>> THEN Fail("lags_empty", [m |-> NoModel])
    ELSE IF \E i \in 1..Len(lags) : lags[i] <= 0 THEN Fail("lags_range", [m |-> NoModel])
    ELSE IF \E i \in 1..Len(rolling_windows) : rolling_windows[i] <= 1
    THEN Fail("windows_range", [m |-> NoModel])
    ELSE Ok([m |-> Instance(id, "ridge", 0, lags, rolling_windows)])

\* df["y"].shift(lag) at row t (0-based): NaN before the series starts
Shifted(yy, lag, t) == IF t - lag >= 0 /\ t - lag < Len(yy) THEN yy[t - lag + 1].v ELSE NaN

\* df["y"].shift(1).rolling(window=w).mean() at row t is defined when the w
\* shifted values ending at row t are all defined
RollDefined(yy, w, t) == \A j \in 0..(w - 1) : ~IsNaN(Shifted(yy, 1, t - j))

RowUsable_LagsOnly(m, yy, t) ==
    /\ ~IsNaN(yy[t + 1].v)
    /\ \A i \in 1..Len(m.lags) : ~IsNaN(Shifted(yy, m.lags[i], t))

\* the rows df.dropna() keeps: y and every feature defined
RowUsable(m, yy, t) ==
    /\ ~IsNaN(yy[t + 1].v)
    /\ \A i \in 1..Len(m.lags) : ~IsNaN(Shifted(yy, m.lags[i], t))
    /\ \A i \in 1..Len(m.rolling_windows) : RollDefined(yy, m.rolling_windows[i], t)

\* _build_training_matrix: the rows (0-based positions) of the training matrix
TrainingRows(m, yy) == {t \in 0..(Len(yy) - 1) : RowUsable(m, yy, t)}

RidgeForecaster_fit(m, yy) ==
    IF TrainingRows(m, yy) = {} THEN Fail("ridge_no_rows", [m |-> m])
    ELSE Ok([m |-> [m EXCEPT !.fitted = TRUE, !.hist = yy]])

\* history.iloc[-w:].mean(): NaN values are skipped; <<sum, count>>, or NaN
MeanSkipNa(s) ==
    LET d == DropNa(s)
    IN  IF d = <<>> THEN NaN
        ELSE <<SumSeq([i \in 1..Len(d) |-> Val(d[i].v)]), Len(d)>>

\* _build_single_feature_row(history)
BuildSingleFeatureRow(m, history) ==
    IF \E i \in 1..Len(m.lags) : Len(history) < m.lags[i]
    THEN Fail("ridge_lag_history", [lag |-> <<>>, roll |-> <<>>])
    ELSE IF \E i \in 1..Len(m.rolling_windows) : Len(history) < m.rolling_windows[i]
    THEN Fail("ridge_window_history", [lag |-> <<>>, roll |-> <<>>])
    ELSE Ok([lag |-> [i \in 1..Len(m.lags) |-> history[Len(history) - m.lags[i] + 1].v],
             roll |-> [i \in 1..Len(m.rolling_windows) |->
                          MeanSkipNa(LastN(history, m.rolling_windows[i]))]])

\* history.loc[ts] = yhat: a new point at the end when ts is a new label,
\* the value of the existing point(s) otherwise
SetLoc(history, ts, c) ==
    IF HasTs(history, ts)
    THEN [i \in 1..Len(history) |-> IF history[i].ts = ts THEN [ts |-> ts, v |-> c] ELSE history[i]]
    ELSE Append(history, [ts |-> ts, v |-> c])

\* the loop of predict from step k on; yhats[k] is what self.model.predict
\* returns at step k (it raises on a feature row holding NaN)
RECURSIVE RidgeSteps(_, _, _, _, _, _, _)
RidgeSteps(m, history, idx, yhats, k, out, rows) ==
    IF k > Len(idx) THEN Ok([preds |-> out, rows |-> rows, history |-> history])
    ELSE LET x == BuildSingleFeatureRow(m, history)
         IN  IF ~x.ok THEN Fail(x.err, [preds |-> <<>>, rows |-> rows, history |-> history])
             ELSE IF (\E i \in 1..Len(x.lag) : IsNaN(x.lag[i]))
                      \/ (\E i \in 1..Len(x.roll) : IsNaN(x.roll[i]))
             THEN Fail("nan_input", [preds |-> <<>>, rows |-> rows, history |-> history])
             ELSE RidgeSteps(m, SetLoc(history, idx[k], <<yhats[k]>>), idx, yhats, k + 1,
                             Append(out, [ts |-> idx[k], v |-> <<yhats[k]>>]),
                             Append(rows, [lag |-> x.lag, roll |-> x.roll, len |-> Len(history)]))

RidgeForecaster_predict_FitFirst(m, start, horizon, yhats) ==
    IF ~m.fitted THEN Fail("not_fit", [preds |-> <<>>, rows |-> <<>>, history |-> <<>>])
    ELSE IF horizon <= 0 THEN Fail("horizon", [preds |-> <<>>, rows |-> <<>>, history |-> <<>>])
    ELSE RidgeSteps(m, m.hist, DateRange(start, horizon), yhats, 1, <<>>, <<>>)

RidgeForecaster_predict(m, start, horizon, yhats) ==
    IF horizon <= 0 THEN Fail("horizon", [preds |-> <<>>, rows |-> <<>>, history |-> <<>>])
    ELSE IF ~m.fitted THEN Fail("not_fit", [preds |-> <<>>, rows |-> <<>>, history |-> <<>>])
    ELSE RidgeSteps(m, m.hist, DateRange(start, horizon), yhats, 1, <<>>, <<>>)

\* the Forecaster protocol: dispatch on the instance's class
Fit(m, yy) ==
    IF m.kind = "seasonal" THEN SeasonalNaiveForecaster_fit(m, yy) ELSE RidgeForecaster_fit(m, yy)

Predict(m, start, horizon, yhats) ==
    IF m.kind = "seasonal"
    THEN SeasonalNaiveForecaster_predict(m, start, horizon)
         @@ [rows |-> <<>>, history |-> <<>>]
    ELSE RidgeForecaster_predict(m, start, horizon, yhats)

\* what the regressor may answer over a whole predict call
YhatSeqs(horizon) == [1..Max2(horizon, 0) -> PredValues]

\* ------------------------------------------------------- fcp/backtest.py
\* the inputs drawn for a run
SeriesInputs == UNION {[1..n -> Cells] : n \in 1..MaxLen}
BacktestConfigs ==
    [horizon : 0..MaxHorizon, step : 0..MaxStep, min_train_points : 1..MaxTrain]
Factories ==
    {[kind |-> "seasonal", season_length |-> s, lags |-> <<>>, rolling_windows |-> <<>>] :
        s \in 0..MaxSeason}
    \cup {[kind |-> "ridge", season_length |-> 0, lags |-> <<1>>, rolling_windows |-> <<>>],
          [kind |-> "ridge", season_length |-> 0, lags |-> <<1, MaxLag>>,
           rolling_windows |-> <<MaxWindow>>]}
PlanningConfigs ==
    [service_level : ServiceLevels, units_per_capacity : UnitsChoices,
     over_capacity_cost : {1}, under_capacity_cost : {3}]

NoArgs == [yy |-> <<>>, start |-> 0, horizon |-> 0, yhats |-> <<>>]
IdleFc == [op |-> "none", ok |-> TRUE, err |-> NoErr, preds |-> <<>>, rows |-> <<>>,
           okFits |-> 0, badFits |-> 0]
IdlePlan == [op |-> "none", ok |-> TRUE, err |-> NoErr, service_level |-> 0,
             recommended_capacity |-> 0, q100 |-> 0]
NoPlan == [service_level |-> 0, units_per_capacity |-> 0, over_capacity_cost |-> 0,
           under_capacity_cost |-> 0]

Required_NoHorizon(c) == c.min_train_points

\* required = cfg.min_train_points + cfg.horizon
Required(c) == c.min_train_points + c.horizon

StartCutoff(c) == c.min_train_points - 1

LastPossibleCutoff_OffByOne(yy, c) == Len(yy) - c.horizon

\* last_possible_cutoff_idx = len(y) - cfg.horizon - 1
LastPossibleCutoff(yy, c) == Len(yy) - c.horizon - 1

TrainSlice_Leak(yy, cutoff) == SubSeq(yy, 1, Len(yy))

\* train = y.iloc[: cutoff_idx + 1]
TrainSlice(yy, cutoff) == SubSeq(yy, 1, cutoff + 1)

\* test = y.reindex(pd.date_range(y.index[cutoff_idx] + freq, periods=horizon))
TestWindow(yy, cutoff, horizon) == Reindex(yy, DateRange(yy[cutoff + 1].ts + 1, horizon))

Call(op, inst, data) == [op |-> op, fold |-> fold, inst |-> inst, data |-> data]

Raise_ReturnPartial(e) ==
    /\ pc' = "returned"
    /\ err' = e
    /\ returned' = results

\* an exception leaves rolling_origin_backtest: nothing catches it, and the
\* local list results never reaches the caller
Raise(e) ==
    /\ pc' = "raised"
    /\ err' = e
    /\ returned' = <<>>

\* lines 54-73: validation and the loop's initial values
Enter ==
    /\ pc = "call"
    /\ IF cfg.horizon <= 0 \/ cfg.step <= 0
       THEN Raise("horizon_step") /\ UNCHANGED <<results, fold, cutoff_idx>>
       ELSE IF Len(y) < Required(cfg)
       THEN Raise("backtest_short_series") /\ UNCHANGED <<results, fold, cutoff_idx>>
       ELSE /\ results' = <<>>
            /\ fold' = 0
            /\ cutoff_idx' = StartCutoff(cfg)
            /\ pc' = "while"
            /\ UNCHANGED <<err, returned>>
    /\ UNCHANGED <<y, cfg, factory, plan, train, test, model, preds, calls, nInst>>
    /\ UNCHANGED <<fcVars, plVars>>

\* lines 75-82: the loop test holds; the fold's number, train slice and test window
BeginFold ==
    /\ pc = "while"
    /\ cutoff_idx <= LastPossibleCutoff(y, cfg)
    /\ fold' = fold + 1
    /\ train' = TrainSlice(y, cutoff_idx)
    /\ test' = TestWindow(y, cutoff_idx, cfg.horizon)
    /\ pc' = "factory"
    /\ UNCHANGED <<y, cfg, factory, plan, cutoff_idx, results, model, preds, returned,
                   err, calls, nInst>>
    /\ UNCHANGED <<fcVars, plVars>>

\* lines 75, 125: the loop test fails; return results
Return ==
    /\ pc = "while"
    /\ ~(cutoff_idx <= LastPossibleCutoff(y, cfg))
    /\ returned' = results
    /\ pc' = "returned"
    /\ UNCHANGED <<y, cfg, factory, plan, fold, cutoff_idx, results, train, test, model,
                   preds, err, calls, nInst>>
    /\ UNCHANGED <<fcVars, plVars>>

\* what model_factory() builds: a new object on every call
NewModel(id) ==
    IF factory.kind = "seasonal"
    THEN SeasonalNaiveForecaster_init(id, factory.season_length)
    ELSE RidgeForecaster_init(id, factory.lags, factory.rolling_windows)

\* line 85: model = model_factory()
CallFactory ==
    /\ pc = "factory"
    /\ LET r == NewModel(nInst + 1)
       IN  /\ calls' = Append(calls, Call("factory", r.m.id, <<>>))
           /\ IF r.ok
              THEN /\ model' = r.m
                   /\ nInst' = nInst + 1
                   /\ pc' = "fit"
                   /\ UNCHANGED <<err, returned>>
              ELSE Raise(r.err) /\ UNCHANGED <<model, nInst>>
    /\ UNCHANGED <<y, cfg, factory, plan, fold, cutoff_idx, results, train, test, preds>>
    /\ UNCHANGED <<fcVars, plVars>>

\* line 86: model.fit(train)
CallFit ==
    /\ pc = "fit"
    /\ LET r == Fit(model, train)
       IN  /\ calls' = Append(calls, Call("fit", model.id, train))
           /\ model' = r.m
           /\ IF r.ok
              THEN pc' = "predict" /\ UNCHANGED <<err, returned>>
              ELSE Raise(r.err)
    /\ UNCHANGED <<y, cfg, factory, plan, fold, cutoff_idx, results, train, test, preds,
                   nInst>>
    /\ UNCHANGED <<fcVars, plVars>>

\* line 87: preds = model.predict(start=test_start, horizon=cfg.horizon, freq=freq)
CallPredict ==
    /\ pc = "predict"
    /\ \E yhats \in (IF model.kind = "ridge" THEN YhatSeqs(cfg.horizon) ELSE {<<>>}) :
         LET r == Predict(model, y[cutoff_idx + 1].ts + 1, cfg.horizon, yhats)
         IN  /\ calls' = Append(calls, Call("predict", model.id, <<>>))
             /\ IF r.ok
                THEN preds' = r.preds /\ pc' = "score" /\ UNCHANGED <<err, returned>>
                ELSE Raise(r.err) /\ UNCHANGED preds
    /\ UNCHANGED <<y, cfg, factory, plan, fold, cutoff_idx, results, train, test, model,
                   nInst>>
    /\ UNCHANGED <<fcVars, plVars>>

\* lines 90-96: the points of the test window with an actual, and the
\* predictions at their timestamps
TestClean(t) == IF AnyNaN(t) THEN DropNa(t) ELSE t
PredsClean_NoReindex(t, p) == p

PredsClean(t, p) == IF AnyNaN(t) THEN Reindex(p, Index(DropNa(t))) ELSE p

\* lines 98-121: the BacktestResult of the fold, or the first error raised
\* while it is computed (capacity, then cost, then mae, then smape)
FoldResult(t, p) ==
    LET test_clean == TestClean(t)
        preds_clean == PredsClean(t, p)
        rec == recommend_capacity(preds_clean, plan)
        cost == evaluate_capacity_cost(test_clean, rec.recommended_capacity, plan)
        m1 == mae(test_clean, preds_clean)
        m2 == smape(test_clean, preds_clean)
        none == [result |-> <<>>]
    IN  IF ~rec.ok THEN Fail(rec.err, none)
        ELSE IF ~cost.ok THEN Fail(cost.err, none)
        ELSE IF ~m1.ok THEN Fail(m1.err, none)
        ELSE IF ~m2.ok THEN Fail(m2.err, none)
        ELSE Ok([result |-> <<[fold |-> fold,
                               cutoff |-> y[cutoff_idx + 1].ts,
                               horizon |-> cfg.horizon,
                               mae |-> m1.value,
                               smape |-> m2.value,
                               recommended_capacity |-> rec.recommended_capacity,
                               planning_cost |-> cost.cost]>>])

\* lines 89-123: score the fold, append its result, advance the cutoff
Score ==
    /\ pc = "score"
    /\ LET r == FoldResult(test, preds)
       IN  IF r.ok
           THEN /\ results' = results \o r.result
                /\ cutoff_idx' = cutoff_idx + cfg.step
                /\ pc' = "while"
                /\ UNCHANGED <<err, returned>>
           ELSE Raise(r.err) /\ UNCHANGED <<results, cutoff_idx>>
    /\ UNCHANGED <<y, cfg, factory, plan, fold, train, test, model, preds, calls, nInst>>
    /\ UNCHANGED <<fcVars, plVars>>

Init ==
    /\ y \in {MkSeries(c) : c \in SeriesInputs}
    /\ cfg \in BacktestConfigs
    /\ factory \in Factories
    /\ plan \in PlanningConfigs
    /\ pc = "call"
    /\ fold = 0
    /\ cutoff_idx = 0
    /\ results = <<>>
    /\ train = <<>>
    /\ test = <<>>
    /\ model = NoModel
    /\ preds = <<>>
    /\ returned = <<>>
    /\ err = NoErr
    /\ calls = <<>>
    /\ nInst = 0
    /\ fc = NoModel
    /\ fcIn = NoArgs
    /\ fcOut = IdleFc
    /\ demand = <<>>
    /\ pOut = IdlePlan
    /\ pPrev = IdlePlan

Next ==
    \/ Enter
    \/ BeginFold
    \/ Return
    \/ CallFactory
    \/ CallFit
    \/ CallPredict
    \/ Score

Spec == Init /\ [][Next]_vars

\* ---------------------------------------------- a forecaster driven directly
\* One instance, constructed with a valid configuration, on which its caller
\* calls fit(yy) and predict(start, horizon, freq) any number of times in any
\* order.  The histories are gap-free (no NaN).  okFits and badFits of fcOut
\* are history: whether a fit has returned, and whether a fit has raised.
FcSeries == UNION {[1..n -> {<<v>> : v \in Values}] : n \in 0..MaxLen}
LagChoices == {<<l>> : l \in 1..MaxLag} \cup {<<1, MaxLag>>}
WindowChoices == {<<>>} \cup {<<w>> : w \in 2..MaxWindow}

\* the backtest's variables, unused outside a backtest
BtIdle ==
    /\ y = <<>>
    /\ cfg = [horizon |-> 0, step |-> 0, min_train_points |-> 0]
    /\ factory = [kind |-> "none", season_length |-> 0, lags |-> <<>>, rolling_windows |-> <<>>]
    /\ pc = "idle"
    /\ fold = 0
    /\ cutoff_idx = 0
    /\ results = <<>>
    /\ train = <<>>
    /\ test = <<>>
    /\ model = NoModel
    /\ preds = <<>>
    /\ returned = <<>>
    /\ err = NoErr
    /\ calls = <<>>
    /\ nInst = 0

FcInit ==
    /\ fc \in {SeasonalNaiveForecaster_init(1, s).m : s \in 1..MaxSeason}
              \cup {RidgeForecaster_init(1, l, w).m : l \in LagChoices, w \in WindowChoices}
    /\ \E c \in FcSeries, horizon \in -1..MaxPredict :
         \E start \in {0, Len(c), Len(c) + 1} :
           \E yhats \in (IF fc.kind = "ridge" THEN YhatSeqs(horizon) ELSE {<<>>}) :
             fcIn = [yy |-> MkSeries(c), start |-> start, horizon |-> horizon,
                     yhats |-> yhats]
    /\ fcOut = IdleFc
    /\ BtIdle
    /\ plan = NoPlan
    /\ demand = <<>>
    /\ pOut = IdlePlan
    /\ pPrev = IdlePlan

\* fc.fit(yy)
FcFit ==
    /\ LET r == Fit(fc, fcIn.yy)
       IN  /\ fc' = r.m
           /\ fcOut' = [op |-> "fit", ok |-> r.ok, err |-> r.err, preds |-> <<>>,
                        rows |-> <<>>,
                        okFits |-> IF r.ok THEN 1 ELSE fcOut.okFits,
                        badFits |-> IF r.ok THEN fcOut.badFits ELSE 1]
    /\ UNCHANGED fcIn
    /\ UNCHANGED <<btVars, plVars>>

\* fc.predict(start, horizon, freq)
FcPredict ==
    /\ LET r == Predict(fc, fcIn.start, fcIn.horizon, fcIn.yhats)
       IN  fcOut' = [op |-> "predict", ok |-> r.ok, err |-> r.err, preds |-> r.preds,
                     rows |-> r.rows, okFits |-> fcOut.okFits, badFits |-> fcOut.badFits]
    /\ UNCHANGED <<fc, fcIn>>
    /\ UNCHANGED <<btVars, plVars>>

FcNext ==
    \/ FcFit
    \/ FcPredict

SpecForecaster == FcInit /\ [][FcNext]_vars

\* ------------------------------------------ the planning functions called directly
DemandInputs == UNION {[1..n -> {<<v>> : v \in DemandValues}] : n \in 0..MaxLen}

\* recommend_capacity called on one forecast at any service levels, with one
\* units_per_capacity
PlInit ==
    /\ demand \in {MkSeries(c) : c \in DemandInputs}
    /\ plan \in [service_level : {0}, units_per_capacity : 0..MaxUnits,
                 over_capacity_cost : {1}, under_capacity_cost : {3}]
    /\ pOut = IdlePlan
    /\ pPrev = IdlePlan
    /\ fc = NoModel
    /\ fcIn = NoArgs
    /\ fcOut = IdleFc
    /\ BtIdle

\* recommend_capacity(demand, p)
PlRecommend ==
    /\ \E s \in PlanLevels :
         LET r == recommend_capacity(demand, [plan EXCEPT !.service_level = s])
         IN  pOut' = [op |-> "recommend", ok |-> r.ok, err |-> r.err, service_level |-> s,
                      recommended_capacity |-> r.recommended_capacity, q100 |-> r.q100]
    /\ pPrev' = pOut
    /\ UNCHANGED <<demand, plan>>
    /\ UNCHANGED <<y, cfg, factory, pc, fold, cutoff_idx, results, train, test, model,
                   preds, returned, err, calls, nInst>>
    /\ UNCHANGED fcVars

PlNext == PlRecommend

SpecPlanning == PlInit /\ [][PlNext]_vars

\* evaluate_capacity_cost called on one actual-demand series (no NaN) with one
\* configuration, at any capacity
CostConfigs ==
    [service_level : {90}, units_per_capacity : 1..MaxUnits,
     over_capacity_cost : {0, 1}, under_capacity_cost : {0, 3}]

CostInit ==
    /\ demand \in {MkSeries(c) : c \in DemandInputs}
    /\ plan \in CostConfigs
    /\ pOut = IdlePlan
    /\ pPrev = IdlePlan
    /\ fc = NoModel
    /\ fcIn = NoArgs
    /\ fcOut = IdleFc
    /\ BtIdle

\* evaluate_capacity_cost(demand, capacity, plan)
PlEvaluate ==
    /\ \E capacity \in -1..MaxCapacity :
         LET r == evaluate_capacity_cost(demand, capacity, plan)
         IN  pOut' = [op |-> "evaluate", ok |-> r.ok, err |-> r.err, capacity |-> capacity,
                      cost |-> r.cost]
    /\ pPrev' = pOut
    /\ UNCHANGED <<demand, plan>>
    /\ UNCHANGED <<y, cfg, factory, pc, fold, cutoff_idx, results, train, test, model,
                   preds, returned, err, calls, nInst>>
    /\ UNCHANGED fcVars

CostNext == PlEvaluate

SpecCost == CostInit /\ [][CostNext]_vars

\* ======================================================================
\* Properties of rolling_origin_backtest (specification Spec)
\* ======================================================================
ValidBacktestConfig == cfg.horizon > 0 /\ cfg.step > 0 /\ cfg.min_train_points > 0

\* the cutoff index of fold n, as the specification of the engine states it
CutoffOf(n) == (cfg.min_train_points - 1) + (n - 1) * cfg.step

\* C1: with a valid config, a series shorter than min_train_points + horizon
\* makes the call fail with the insufficient-data error before any fold is
\* run (no factory call, fold still 0); otherwise the first fold is run: the
\* loop test holds on entry, no error leaves the function before fold 1, and a
\* list that is returned is not empty.
C1_InsufficientDataOrAFold ==
    (ValidBacktestConfig /\ pc # "call") =>
        IF Len(y) < cfg.min_train_points + cfg.horizon
        THEN pc = "raised" /\ err = "backtest_short_series" /\ fold = 0 /\ calls = <<>>
        ELSE /\ (pc = "while" /\ fold = 0) => cutoff_idx + cfg.horizon < Len(y)
             /\ pc = "raised" => fold >= 1
             /\ pc = "returned" => Len(returned) >= 1

\* C1 witness: a series of exactly min_train_points + horizon points gave one fold
C1_Witness ==
    /\ pc = "returned"
    /\ Len(y) = cfg.min_train_points + cfg.horizon
    /\ Len(returned) = 1

\* C2: in a returned list the n-th result has fold number n and the cutoff at
\* index (min_train_points - 1) + (n - 1) * step (the timestamp of that index),
\* every cutoff index i has i + horizon < len(series), and the next cutoff of
\* the progression has not.
C2_FoldNumbersAndCutoffs ==
    pc = "returned" =>
        /\ \A n \in 1..Len(returned) :
              /\ returned[n].fold = n
              /\ returned[n].cutoff = y[CutoffOf(n) + 1].ts
              /\ CutoffOf(n) + cfg.horizon < Len(y)
        /\ ~(CutoffOf(Len(returned) + 1) + cfg.horizon < Len(y))

\* C2 witness: two folds or more, two indices apart
C2_Witness == pc = "returned" /\ Len(returned) >= 2 /\ cfg.step = 2

\* the calls made during fold f, in order
CallsOfFold(f) == SelectSeq(calls, LAMBDA c : c.fold = f)

\* C3: in every fold the calls are, in this order, one factory call, one fit
\* and one predict (all three once the fold's result is appended); fit and
\* predict are called on the object that fold's factory call returned; the
\* data passed to fit is exactly the points at indices 0..cutoff; and the
\* objects of different folds are different objects.
C3_FreshForecasterFitOnTrainOnly ==
    /\ \A i \in 1..Len(calls) : calls[i].fold \in 1..fold
    /\ \A f \in 1..fold :
          LET cs == CallsOfFold(f)
          IN  /\ Len(cs) <= 3
              /\ f <= Len(results) => Len(cs) = 3
              /\ f < fold => Len(cs) = 3
              /\ \A i \in 1..Len(cs) :
                    /\ cs[i].op = <<"factory", "fit", "predict">>[i]
                    /\ i > 1 => cs[i].inst = cs[1].inst /\ cs[i].inst # 0
              /\ Len(cs) >= 2 =>
                    /\ Len(cs[2].data) = CutoffOf(f) + 1
                    /\ \A j \in 1..Len(cs[2].data) : cs[2].data[j] = y[j]
                    /\ \A j \in 1..Len(cs[2].data) : cs[2].data[j].ts <= y[CutoffOf(f) + 1].ts
    /\ \A i, j \in 1..Len(calls) :
          (calls[i].fold # calls[j].fold /\ calls[i].inst # 0) => calls[i].inst # calls[j].inst

\* C3 witness: a second fold has fit and predicted while points after its
\* cutoff exist
C3_Witness ==
    /\ fold >= 2
    /\ Len(CallsOfFold(fold)) = 3
    /\ Len(train) < Len(y)

\* the number of folds the loop generates
ExpectedFolds == ((Len(y) - cfg.horizon - 1) - (cfg.min_train_points - 1)) \div cfg.step + 1

\* C4: when an error is raised (in any fold, by the factory, fit, predict, the
\* planning functions or the metrics) the call raises and the caller receives
\* no results; a list is returned only when no error was raised, and it then
\* holds the result of every fold (none was skipped).
C4_AllOrNothing ==
    /\ pc = "raised" => (err # NoErr /\ returned = <<>>)
    /\ err # NoErr => pc = "raised"
    /\ pc = "returned" => (err = NoErr /\ Len(returned) = ExpectedFolds /\ returned = results)
    /\ pc \notin {"returned"} => returned = <<>>

\* C4 witness: an error in a later fold, after earlier folds completed
C4_Witness == pc = "raised" /\ fold >= 2 /\ Len(results) >= 1

PlanConfigInvalid ==
    ~(50 <= plan.service_level /\ plan.service_level < 100) \/ plan.units_per_capacity <= 0

\* C5: a service_level outside [0.5, 1.0) or a units_per_capacity <= 0 makes
\* rolling_origin_backtest raise the configuration error at entry: the factory
\* is never called, no forecaster is fit or asked to predict, and the error
\* that leaves the call is the configuration error.
C5_PlanningConfigRejectedAtEntry ==
    PlanConfigInvalid =>
        /\ calls = <<>>
        /\ (pc = "raised" /\ ValidBacktestConfig /\ Len(y) >= Required(cfg)) =>
              err \in {"service_level", "units_per_capacity"}

NonNegative(r) == r[1] >= 0 /\ r[2] > 0

\* C6: every fold result, in the list being built and in the list returned,
\* has mae >= 0, smape >= 0, recommended_capacity >= 0 and planning_cost >= 0;
\* a negative capacity never reaches a result.
C6_ResultsNonNegative ==
    \A r \in {results[i] : i \in 1..Len(results)} \cup {returned[i] : i \in 1..Len(returned)} :
        /\ NonNegative(r.mae)
        /\ NonNegative(r.smape)
        /\ r.recommended_capacity >= 0
        /\ r.planning_cost >= 0

\* C6 witness: the service-level quantile of a fold's forecast was negative
\* enough for recommend_capacity to yield a negative capacity, after a fold
\* whose result was kept
C6_Witness ==
    /\ pc = "raised"
    /\ err = "capacity_negative"
    /\ Len(results) >= 1
    /\ recommend_capacity(PredsClean(test, preds), plan).recommended_capacity < 0

\* ======================================================================
\* Properties of the forecasters (specification SpecForecaster)
\* ======================================================================
\* C7: predict of a seasonal forecaster fit on a history of len >= season_length
\* points, with horizon > 0, returns exactly horizon values at the timestamps
\* start, start + 1, ..., and the value at offset k is
\* history[len - season_length + (k mod season_length)] (0-based).
C7_SeasonalCyclicRepeat ==
    (fc.kind = "seasonal" /\ fcOut.op = "predict" /\ fcOut.okFits > 0 /\ fcIn.horizon > 0) =>
        /\ fcOut.ok
        /\ Len(fcOut.preds) = fcIn.horizon
        /\ \A k \in 0..(fcIn.horizon - 1) :
              /\ fcOut.preds[k + 1].ts = fcIn.start + k
              /\ fcOut.preds[k + 1].v =
                    fcIn.yy[Len(fcIn.yy) - fc.season_length + (k % fc.season_length) + 1].v

\* C7 witness: a horizon larger than the season and not a multiple of it, on a
\* history longer than the season whose last season is not its first
C7_Witness ==
    /\ fc.kind = "seasonal" /\ fcOut.op = "predict" /\ fcOut.ok
    /\ fc.season_length = 2 /\ fcIn.horizon = 3
    /\ Len(fcIn.yy) = 3
    /\ fcIn.yy[1].v # fcIn.yy[3].v
    /\ fcIn.yy[2].v # fcIn.yy[3].v

\* C8 as claimed: predict on an instance no fit has completed on fails with
\* the not-fit error, whatever horizon is passed.
C8_NotFitForEveryHorizon ==
    (fcOut.op = "predict" /\ fcOut.okFits = 0) =>
        (~fcOut.ok /\ fcOut.err = "not_fit" /\ ErrType(fcOut.err) = "RuntimeError")

\* C8 amended: predict on an instance no fit has completed on (never fit, or
\* only fits that raised) fails, for both forecasters: with the not-fit error
\* (a RuntimeError) when horizon > 0, and with the invalid-argument error (a
\* ValueError) when horizon <= 0, since horizon is checked first.
C8_NotFitWhenHorizonPositive ==
    (fcOut.op = "predict" /\ fcOut.okFits = 0) =>
        /\ ~fcOut.ok
        /\ ~fc.fitted
        /\ fcIn.horizon > 0 => (fcOut.err = "not_fit" /\ ErrType(fcOut.err) = "RuntimeError")
        /\ fcIn.horizon <= 0 => (fcOut.err = "horizon" /\ ErrType(fcOut.err) = "ValueError")

\* C8 witness: predict with horizon > 0 on a ridge instance whose only fit raised
C8_Witness ==
    /\ fc.kind = "ridge" /\ fcOut.op = "predict"
    /\ fcOut.okFits = 0 /\ fcOut.badFits = 1
    /\ fcIn.horizon > 0
    /\ fcOut.err = "not_fit"

RECURSIVE MaxOfSeq(_)
MaxOfSeq(s) == IF s = <<>> THEN 0 ELSE Max2(Head(s), MaxOfSeq(Tail(s)))

\* C9: RidgeForecaster.fit on a gap-free history raises the insufficient-data
\* error exactly when len(history) <= max(lags + rolling_windows), and
\* otherwise succeeds and leaves the instance fit on that history.
C9_RidgeFitNeedsMoreThanMaxOffset ==
    (fc.kind = "ridge" /\ fcOut.op = "fit") =>
        IF Len(fcIn.yy) <= MaxOfSeq(fc.lags \o fc.rolling_windows)
        THEN ~fcOut.ok /\ fcOut.err = "ridge_no_rows" /\ fcOut.okFits = 0 /\ ~fc.fitted
        ELSE fcOut.ok /\ fc.fitted /\ fc.hist = fcIn.yy

\* C9 witness: a history as long as the largest window, which is larger than
\* every lag, is refused
C9_Witness ==
    /\ fc.kind = "ridge" /\ fcOut.op = "fit" /\ ~fcOut.ok
    /\ Len(fcIn.yy) = MaxOfSeq(fc.rolling_windows)
    /\ Len(fcIn.yy) > MaxOfSeq(fc.lags)

\* ======================================================================
\* Properties of recommend_capacity (specification SpecPlanning)
\* ======================================================================
\* C10: of two calls of recommend_capacity on the same forecast with the same
\* units_per_capacity that both return, the one with the higher service level
\* returns a recommended_capacity at least as large.
C10_CapacityMonotoneInServiceLevel ==
    (pOut.op = "recommend" /\ pPrev.op = "recommend" /\ pOut.ok /\ pPrev.ok
     /\ pPrev.service_level <= pOut.service_level) =>
        pPrev.recommended_capacity <= pOut.recommended_capacity

\* C10 witness: two service levels with different capacities
C10_Witness ==
    /\ pOut.op = "recommend" /\ pPrev.op = "recommend" /\ pOut.ok /\ pPrev.ok
    /\ pPrev.service_level < pOut.service_level
    /\ pPrev.recommended_capacity < pOut.recommended_capacity

\* C11: a recommend_capacity call that returns gives the smallest integer c
\* with c * units_per_capacity >= q, q the service-level quantile of the
\* forecast (held as q100 = 100 * q): the provision c * units_per_capacity is
\* never below q, and c - 1 would be.
C11_CapacityIsCeiling ==
    (pOut.op = "recommend" /\ pOut.ok) =>
        /\ 100 * pOut.recommended_capacity * plan.units_per_capacity >= pOut.q100
        /\ 100 * (pOut.recommended_capacity - 1) * plan.units_per_capacity < pOut.q100
        /\ pOut.q100 >= 100 * Sorted([i \in 1..Len(demand) |-> Val(demand[i].v)])[1]
        /\ pOut.q100 <= 100 * Sorted([i \in 1..Len(demand) |-> Val(demand[i].v)])[Len(demand)]

\* C11 witness: the quantile is strictly between two multiples of
\* units_per_capacity, so floor and ceiling differ
C11_Witness ==
    /\ pOut.op = "recommend" /\ pOut.ok
    /\ pOut.q100 > 0
    /\ pOut.q100 % (100 * plan.units_per_capacity) # 0
    /\ plan.units_per_capacity > 1

\* ======================================================================
\* Properties of evaluate_capacity_cost (specification SpecCost)
\* ======================================================================
\* ceil(d / units): the smallest integer r with r * units >= d
CeilOf(d, units) == CHOOSE r \in (-Abs(d) - 1)..(Abs(d) + 1) :
                        r * units >= d /\ (r - 1) * units < d

RequiredOf(i) == CeilOf(Val(demand[i].v), plan.units_per_capacity)
OverOf(i, capacity) == IF capacity > RequiredOf(i) THEN capacity - RequiredOf(i) ELSE 0
UnderOf(i, capacity) == IF RequiredOf(i) > capacity THEN RequiredOf(i) - capacity ELSE 0

\* C12: for capacity >= 0, evaluate_capacity_cost returns
\* over_capacity_cost * sum of max(capacity - required, 0)
\* + under_capacity_cost * sum of max(required - capacity, 0) over all periods,
\* required = ceil(demand / units_per_capacity), a sum and not a mean; so the
\* cost is 0 when capacity equals required in every period.
C12_CostIsAsymmetricSum ==
    (pOut.op = "evaluate" /\ pOut.capacity >= 0) =>
        /\ pOut.ok
        /\ pOut.cost =
              plan.over_capacity_cost
                  * SumSeq([i \in 1..Len(demand) |-> OverOf(i, pOut.capacity)])
              + plan.under_capacity_cost
                  * SumSeq([i \in 1..Len(demand) |-> UnderOf(i, pOut.capacity)])
        /\ (\A i \in 1..Len(demand) : RequiredOf(i) = pOut.capacity) => pOut.cost = 0
        /\ \A i \in 1..Len(demand) : OverOf(i, pOut.capacity) = 0 \/ UnderOf(i, pOut.capacity) = 0

\* C12 witness: periods over and periods under capacity in one window, with
\* different rates, and several periods (a mean would differ from the sum)
C12_Witness ==
    /\ pOut.op = "evaluate" /\ pOut.ok
    /\ plan.over_capacity_cost = 1 /\ plan.under_capacity_cost = 3
    /\ Len(demand) >= 3
    /\ \E i \in 1..Len(demand) : OverOf(i, pOut.capacity) > 0
    /\ \E i \in 1..Len(demand) : UnderOf(i, pOut.capacity) > 0
    /\ pOut.cost > 0

\* ======================================================================
\* Properties of RidgeForecaster.predict's recursion (specification SpecForecaster)
\* ======================================================================
\* the lag-l feature at step k (0-based) over the training history followed by
\* the k predictions already made
LagOverAppended(l, k) ==
    IF l <= k THEN <<fcIn.yhats[k - l + 1]>>
    ELSE fc.hist[Len(fc.hist) - (l - k) + 1].v

\* C13: in RidgeForecaster.predict, for every start and every horizon > 0,
\* the feature row of step k is built from the training history followed by
\* the k predictions already made (length = training length + k; lag l is
\* prediction k-l when l <= k, else the training value at len - (l - k)),
\* also when start lies inside the training range.
C13_PredictionsAppendedNeverReplace ==
    (fcOut.op = "predict" /\ fc.kind = "ridge" /\ fc.fitted /\ fcIn.horizon > 0) =>
        \A k \in 0..(Len(fcOut.rows) - 1) :
            /\ fcOut.rows[k + 1].len = Len(fc.hist) + k
            /\ \A i \in 1..Len(fc.lags) :
                   fcOut.rows[k + 1].lag[i] = LagOverAppended(fc.lags[i], k)

\* ======================================================================
\* Gaps in a fold's test window (specification Spec)
\* ======================================================================
\* the positions of the current test window that have an actual
Kept == {i \in 1..Len(test) : ~IsNaN(test[i].v)}

\* the actuals at those positions, and the predictions at their timestamps
ActualsKept == SelectSeq(test, LAMBDA r : ~IsNaN(r.v))
ForecastKept == [i \in 1..Len(ActualsKept) |->
                    [ts |-> ActualsKept[i].ts, v |-> AtTs(preds, ActualsKept[i].ts)]]

\* the errors a fold raises for having no point to compare
GapErrors == {"empty_quantile", "alignment"}

\* the current fold has been scored and its result appended
FoldScored == fold >= 1 /\ Len(results) = fold /\ pc \in {"while", "returned"}

\* the fold's result is computed over the kept positions only
ResultOverKept ==
    LET r == results[fold]
        cap == recommend_capacity(ForecastKept, plan).recommended_capacity
    IN  /\ r.mae = <<SumSeq([i \in 1..Len(test) |->
                                IF i \in Kept
                                THEN Abs(Val(test[i].v) - Val(AtTs(preds, test[i].ts)))
                                ELSE 0]),
                     Cardinality(Kept)>>
        /\ r.smape = smape(ActualsKept, ForecastKept).value
        /\ r.recommended_capacity = cap
        /\ r.planning_cost =
              plan.over_capacity_cost
                  * SumSeq([i \in 1..Len(test) |->
                               IF i \in Kept
                               THEN Max2(cap - CeilDiv(Val(test[i].v), plan.units_per_capacity), 0)
                               ELSE 0])
              + plan.under_capacity_cost
                  * SumSeq([i \in 1..Len(test) |->
                               IF i \in Kept
                               THEN Max2(CeilDiv(Val(test[i].v), plan.units_per_capacity) - cap, 0)
                               ELSE 0])

\* C14 as stated: whenever timestamps of a fold's test window have no actual,
\* in any number up to all of them, the backtest does not fail for lack of
\* points and the fold's metrics, capacity and cost are computed over exactly
\* the timestamps with an actual, paired with the predictions there.
C14_GapsToleratedAnyNumber ==
    AnyNaN(test) =>
        /\ pc = "raised" => err \notin GapErrors
        /\ FoldScored => ResultOverKept

\* C14 amended: when some but not all timestamps of a fold's test window have
\* no actual, the backtest does not fail for lack of points and the fold's
\* metrics, capacity and cost are computed over exactly the timestamps with an
\* actual, paired with the predictions there; a fold whose test window has no
\* actual at all never yields a result.
C14_GapsToleratedWhenSomeActual ==
    /\ (AnyNaN(test) /\ Kept # {}) =>
           /\ pc = "raised" => err \notin GapErrors
           /\ FoldScored => ResultOverKept
    /\ (fold >= 1 /\ Kept = {}) => Len(results) < fold

\* C14 witness: a fold scored over one of its two test timestamps, the
\* prediction at the dropped timestamp differing from the one kept
C14_Witness ==
    /\ FoldScored
    /\ \E i, j \in 1..Len(test) :
           /\ IsNaN(test[i].v)
           /\ ~IsNaN(test[j].v)
           /\ ~IsNaN(preds[i].v)
           /\ preds[i].v # preds[j].v
    /\ results[fold].mae[2] = Cardinality(Kept)
    /\ results[fold].planning_cost > 0

====
